---- MODULE Spec2Model ----
(***************************************************************************)
(* Model of src/batch_import_data.py: the paginated batch import           *)
(* (batch_import_bigquery_data), the sampling step                         *)
(* (create_sample_from_batches) and the __main__ block that runs one after *)
(* the other.                                                              *)
(*                                                                         *)
(* A table row is a record [cep, loc]: cep is the postal code as a string  *)
(* of decimal digits (a sequence of 0..9), loc stands for the pair         *)
(* (latitude, longitude).  A DataFrame and a CSV file are both sequences   *)
(* of such rows; a DataFrame cell is represented by the text to_csv writes *)
(* for it, so an integer cell is its decimal rendering without leading     *)
(* zeros.                                                                  *)
(***************************************************************************)
EXTENDS Integers, Sequences, FiniteSets, TLC

\* ---------------------------------------------------------------- bounds
MaxRows == 3
MaxBatchSize == 2
MaxStale == 2
MaxSample == 3

\* ------------------------------------------------------- the remote table
CepSet == {<<0, 1>>, <<1, 0>>}
Locs == {1, 2}
Universe == [cep : CepSet, loc : Locs]

RECURSIVE LexLess(_, _)
\* Python / SQL string order on sequences of character codes or digits.
LexLess(a, b) ==
  IF a = <<>> THEN b # <<>>
  ELSE IF b = <<>> THEN FALSE
  ELSE IF Head(a) # Head(b) THEN Head(a) < Head(b)
  ELSE LexLess(Tail(a), Tail(b))

\* ORDER BY cep, latitude, longitude
RowLess(r, s) == LexLess(r.cep, s.cep) \/ (r.cep = s.cep /\ r.loc < s.loc)

RECURSIVE OrderBy(_)
OrderBy(S) ==
  IF S = {} THEN <<>>
  ELSE LET m == CHOOSE r \in S : \A s \in S \ {r} : RowLess(r, s)
       IN <<m>> \o OrderBy(S \ {m})

Min(a, b) == IF a < b THEN a ELSE b

Take(s, n) == SubSeq(s, 1, Min(n, Len(s)))

\* The tables a run can meet: any set of at most MaxRows eligible rows.
Tables == {T \in SUBSET Universe : Cardinality(T) <= MaxRows}

\* SELECT COUNT(*) may observe another snapshot than the batch queries.
CountResults == 0 .. (MaxRows + 1)

OffsetWrong(n, size) == (n + 1) * size
\* offset = batch_num * batch_size
Offset(n, size) == n * size

NumBatchesFloor(total, size) == total \div size
\* num_batches = (total_rows + batch_size - 1) // batch_size
NumBatches(total, size) == (total + size - 1) \div size

\* SELECT ... ORDER BY cep, latitude, longitude LIMIT limit OFFSET offset
BatchQueryRows(T, limit, offset) ==
  LET all == OrderBy(T)
  IN SubSeq(all, offset + 1, Min(offset + limit, Len(all)))

\* --------------------------------------------------------- file names
RECURSIVE Digits(_)
\* decimal rendering of n >= 0 as character codes
Digits(n) == IF n < 10 THEN <<48 + n>> ELSE Digits(n \div 10) \o <<48 + (n % 10)>>

RECURSIVE ZeroPad(_, _)
ZeroPad(s, w) == IF Len(s) >= w THEN s ELSE ZeroPad(<<48>> \o s, w)

RECURSIVE Thousands(_)
\* format spec "," : groups of three digits separated by commas
Thousands(n) ==
  IF n < 1000 THEN Digits(n)
  ELSE Thousands(n \div 1000) \o <<44>> \o ZeroPad(Digits(n % 1000), 3)

\* A batch file is named by <<index, rows>>:
\* f"{OUTPUT_DIR}/batch_{batch_num + 1:04d}_{len(df_batch):,}_rows.csv".
\* FileName renders the part of the name that differs between files.
BatchName(n, df) == <<n + 1, Len(df)>>
FileName(name) == ZeroPad(Digits(name[1]), 4) \o <<95>> \o Thousands(name[2]) \o <<95>>

RECURSIVE SortedNames(_)
\* sorted([...]) on the file names of the batch directory
SortedNames(S) ==
  IF S = {} THEN <<>>
  ELSE LET m == CHOOSE n \in S : \A o \in S \ {n} : LexLess(FileName(n), FileName(o))
       IN <<m>> \o SortedNames(S \ {m})

\* ------------------------------------------------------ pandas operations
RECURSIVE ConcatReversed(_)
ConcatReversed(dfs) == IF dfs = <<>> THEN <<>> ELSE ConcatReversed(Tail(dfs)) \o Head(dfs)

RECURSIVE Concat(_)
\* pd.concat(dfs, ignore_index=True)
Concat(dfs) == IF dfs = <<>> THEN <<>> ELSE Head(dfs) \o Concat(Tail(dfs))

RECURSIVE StripZeros(_)
\* the text of int(text): leading zeros are lost, one digit is kept
StripZeros(t) == IF Len(t) > 1 /\ Head(t) = 0 THEN StripZeros(Tail(t)) ELSE t

IsNumeric(t) == t # <<>> /\ \A i \in 1 .. Len(t) : t[i] \in 0 .. 9

\* pd.read_csv(path) with no dtype: a column whose every value parses as an
\* integer becomes int64, otherwise it stays text.
ReadCsv(rows) ==
  IF \A i \in 1 .. Len(rows) : IsNumeric(rows[i].cep)
  THEN [i \in 1 .. Len(rows) |-> [cep |-> StripZeros(rows[i].cep), loc |-> rows[i].loc]]
  ELSE rows

\* What a write that raises, or is interrupted, can leave in the file: the
\* header and any proper prefix of the rows.
PartialWrites(rows) == {SubSeq(rows, 1, k) : k \in 0 .. (Len(rows) - 1)}

\* ------------------------------------------------------------ the state
VARIABLES
  table,       \* the eligible rows of the remote table
  batch_size,  \* argument of batch_import_bigquery_data
  pc,          \* position of the process
  total_rows, num_batches, batch_num, df_batch, all_data,
  dir,         \* OUTPUT_DIR: file name -> rows
  combined,    \* bigquery_all_data_combined.csv: <<>> (absent) or <<rows>>
  sample,      \* bigquery_sample_from_batches.csv: <<>> (absent) or <<rows>>
  success,     \* the value main receives from batch_import_bigquery_data
  sample_size, batch_files, file_pos, sample_data,
  \* history of the run
  dir0,        \* OUTPUT_DIR as the run found it
  queried,     \* the batch queries issued, in order
  written,     \* names of the batch files this run wrote completely
  failed,      \* batch_num of every batch whose query or write raised
  zeroAt,      \* batch_num whose query returned no row, or -1
  errAt,       \* where an Exception left the function, or "none"
  intAt,       \* where KeyboardInterrupt was delivered, or "none"
  wroteCombined, wroteSample

vars == <<table, batch_size, pc, total_rows, num_batches, batch_num, df_batch,
          all_data, dir, combined, sample, success, sample_size, batch_files,
          file_pos, sample_data, dir0, queried, written, failed, zeroAt, errAt,
          intAt, wroteCombined, wroteSample>>

runVars == <<total_rows, num_batches, batch_num, df_batch, all_data>>
sampleVars == <<sample_size, batch_files, file_pos, sample_data>>
inputVars == <<table, batch_size, dir0>>

EmptyDir == [n \in {} |-> <<>>]

Put(d, name, rows) == [n \in DOMAIN d \cup {name} |-> IF n = name THEN rows ELSE d[n]]

\* Tables of an earlier run: every eligible row, or those of one postal code.
EarlierTables == {Universe} \cup {{r \in Universe : r.cep = c} : c \in CepSet}

\* What the run can find in OUTPUT_DIR: nothing, or the first batch file of an
\* earlier run with a batch size of 1..MaxStale.
StaleDirs ==
  {EmptyDir} \cup
  {Put(EmptyDir, BatchName(0, BatchQueryRows(T, c, 0)), BatchQueryRows(T, c, 0)) :
     T \in EarlierTables, c \in 1 .. MaxStale}

Init ==
  /\ table \in Tables
  /\ batch_size \in 1 .. MaxBatchSize
  /\ dir0 \in StaleDirs
  /\ dir = dir0
  /\ pc = "count"
  /\ total_rows = 0 /\ num_batches = 0 /\ batch_num = 0
  /\ df_batch = <<>> /\ all_data = <<>>
  /\ combined = <<>> /\ sample = <<>>
  /\ success = "none"
  /\ sample_size = 0 /\ batch_files = <<>> /\ file_pos = 1 /\ sample_data = <<>>
  /\ queried = <<>> /\ written = {} /\ failed = {}
  /\ zeroAt = -1 /\ errAt = "none" /\ intAt = "none"
  /\ wroteCombined = FALSE /\ wroteSample = FALSE

\* ------------------------------------------- batch_import_bigquery_data
\* Lines 33-48: the count query succeeds, the plan is computed and OUTPUT_DIR
\* exists from here on.  range(num_batches) is empty when num_batches = 0.
CountAndPlan ==
  /\ pc = "count"
  /\ \E c \in CountResults :
       /\ total_rows' = c
       /\ num_batches' = NumBatches(c, batch_size)
       /\ pc' = IF NumBatches(c, batch_size) > 0 THEN "query" ELSE "combine"
  /\ batch_num' = 0
  /\ UNCHANGED <<df_batch, all_data, dir, combined, sample, success, sampleVars,
                 inputVars, queried, written, failed, zeroAt, errAt, intAt,
                 wroteCombined, wroteSample>>

CountFailsSwallowed ==
  /\ pc = "count"
  /\ pc' = "combine"
  /\ errAt' = "count"
  /\ UNCHANGED <<runVars, dir, combined, sample, success, sampleVars, inputVars,
                 queried, written, failed, zeroAt, intAt, wroteCombined,
                 wroteSample>>

\* Line 33 raises: nothing in the function catches it, main's
\* "except Exception" (line 212) prints it and the process ends.
CountFails ==
  /\ pc = "count"
  /\ pc' = "fatal"
  /\ errAt' = "count"
  /\ UNCHANGED <<runVars, dir, combined, sample, success, sampleVars, inputVars,
                 queried, written, failed, zeroAt, intAt, wroteCombined,
                 wroteSample>>

\* The for loop moves to the next batch_num, or ends.
NextIteration ==
  IF batch_num + 1 < num_batches
  THEN pc' = "query" /\ batch_num' = batch_num + 1
  ELSE pc' = "combine" /\ batch_num' = batch_num

AfterZeroRowsContinue == NextIteration
\* Lines 76-78: break
AfterZeroRows == pc' = "combine" /\ batch_num' = batch_num

AfterErrorBreak == pc' = "combine" /\ batch_num' = batch_num
AfterErrorRetry == pc' = "query" /\ batch_num' = batch_num
\* Lines 103-105: except Exception ... continue
AfterError == NextIteration

\* Lines 52-78: the batch query returns.
BatchQuery ==
  /\ pc = "query"
  /\ LET off == Offset(batch_num, batch_size)
         df == BatchQueryRows(table, batch_size, off)
     IN /\ queried' = Append(queried, [batch_num |-> batch_num, offset |-> off,
                                       limit |-> batch_size, rows |-> df])
        /\ IF Len(df) = 0
           THEN /\ zeroAt' = batch_num
                /\ AfterZeroRows
                /\ UNCHANGED df_batch
           ELSE /\ df_batch' = df
                /\ pc' = "write"
                /\ UNCHANGED <<batch_num, zeroAt>>
  /\ UNCHANGED <<total_rows, num_batches, all_data, dir, combined, sample,
                 success, sampleVars, inputVars, written, failed, errAt, intAt,
                 wroteCombined, wroteSample>>

\* Line 74 raises an Exception.
BatchQueryFails ==
  /\ pc = "query"
  /\ queried' = Append(queried, [batch_num |-> batch_num,
                                 offset |-> Offset(batch_num, batch_size),
                                 limit |-> batch_size, rows |-> <<>>])
  /\ failed' = failed \cup {batch_num}
  /\ AfterError
  /\ UNCHANGED <<total_rows, num_batches, df_batch, all_data, dir, combined,
                 sample, success, sampleVars, inputVars, written, zeroAt, errAt,
                 intAt, wroteCombined, wroteSample>>

\* Lines 80-101: the batch file is written and the batch is kept in memory.
BatchWrite ==
  /\ pc = "write"
  /\ dir' = Put(dir, BatchName(batch_num, df_batch), df_batch)
  /\ written' = written \cup {BatchName(batch_num, df_batch)}
  /\ all_data' = Append(all_data, df_batch)
  /\ NextIteration
  /\ UNCHANGED <<total_rows, num_batches, df_batch, combined, sample, success,
                 sampleVars, inputVars, queried, failed, zeroAt, errAt, intAt,
                 wroteCombined, wroteSample>>

\* Line 84 raises an Exception: the file is untouched or partly written, and
\* line 101 is not reached.
BatchWriteFails ==
  /\ pc = "write"
  /\ \/ dir' = dir
     \/ \E p \in PartialWrites(df_batch) :
          dir' = Put(dir, BatchName(batch_num, df_batch), p)
  /\ failed' = failed \cup {batch_num}
  /\ AfterError
  /\ UNCHANGED <<total_rows, num_batches, df_batch, all_data, combined, sample,
                 success, sampleVars, inputVars, queried, written, zeroAt, errAt,
                 intAt, wroteCombined, wroteSample>>

\* Lines 107-127: the combined file is written when a batch was kept, and the
\* function returns True.
Combine ==
  /\ pc = "combine"
  /\ IF all_data # <<>>
     THEN combined' = <<Concat(all_data)>> /\ wroteCombined' = TRUE
     ELSE UNCHANGED <<combined, wroteCombined>>
  /\ success' = "True"
  /\ pc' = "returned"
  /\ UNCHANGED <<runVars, dir, sample, sampleVars, inputVars, queried, written,
                 failed, zeroAt, errAt, intAt, wroteSample>>

\* Line 117 or 119 raises: outside the try, so it leaves the function.
CombineFails ==
  /\ pc = "combine"
  /\ all_data # <<>>
  /\ \/ combined' = combined
     \/ \E p \in PartialWrites(Concat(all_data)) : combined' = <<p>>
  /\ pc' = "fatal"
  /\ errAt' = "combine"
  /\ UNCHANGED <<runVars, dir, sample, success, sampleVars, inputVars, queried,
                 written, failed, zeroAt, intAt, wroteCombined, wroteSample>>

\* ------------------------------------------- create_sample_from_batches
\* Lines 199-201 and 134-143: main calls the function when success is true;
\* OUTPUT_DIR exists; the csv names are listed and sorted.
SampleStart ==
  /\ pc = "returned"
  /\ success = "True"
  /\ sample_size' \in 0 .. MaxSample
  /\ batch_files' = SortedNames(DOMAIN dir)
  /\ sample_data' = <<>>
  /\ file_pos' = 1
  /\ pc' = IF DOMAIN dir = {} THEN "sample_write" ELSE "sample_read"
  /\ UNCHANGED <<runVars, dir, combined, sample, success, inputVars, queried,
                 written, failed, zeroAt, errAt, intAt, wroteCombined,
                 wroteSample>>

\* Lines 143-149: one iteration over batch_files[:5].
SampleRead ==
  /\ pc = "sample_read"
  /\ LET data == Append(sample_data, ReadCsv(dir[batch_files[file_pos]]))
     IN /\ sample_data' = data
        /\ IF Len(Concat(data)) >= sample_size
           THEN pc' = "sample_write" /\ file_pos' = file_pos
           ELSE IF file_pos + 1 <= Min(5, Len(batch_files))
                THEN pc' = "sample_read" /\ file_pos' = file_pos + 1
                ELSE pc' = "sample_write" /\ file_pos' = file_pos
  /\ UNCHANGED <<runVars, dir, combined, sample, success, sample_size,
                 batch_files, inputVars, queried, written, failed, zeroAt,
                 errAt, intAt, wroteCombined, wroteSample>>

\* Lines 151-158.
SampleWrite ==
  /\ pc = "sample_write"
  /\ IF sample_data # <<>>
     THEN /\ sample' = <<Take(Concat(sample_data), sample_size)>>
          /\ wroteSample' = TRUE
     ELSE UNCHANGED <<sample, wroteSample>>
  /\ pc' = "done"
  /\ UNCHANGED <<runVars, dir, combined, success, sampleVars, inputVars, queried,
                 written, failed, zeroAt, errAt, intAt, wroteCombined>>

\* ------------------------------------------------------ KeyboardInterrupt
Running == {"count", "query", "write", "combine", "sample_read", "sample_write"}

\* What the interrupted statement can leave on disk.
InterruptedFiles ==
  /\ IF pc = "write"
     THEN \/ dir' = dir
          \/ \E p \in PartialWrites(df_batch) :
               dir' = Put(dir, BatchName(batch_num, df_batch), p)
     ELSE dir' = dir
  /\ IF pc = "combine" /\ all_data # <<>>
     THEN \/ combined' = combined
          \/ \E p \in PartialWrites(Concat(all_data)) : combined' = <<p>>
     ELSE combined' = combined
  /\ IF pc = "sample_write" /\ sample_data # <<>>
     THEN \/ sample' = sample
          \/ \E p \in PartialWrites(Take(Concat(sample_data), sample_size)) :
               sample' = <<p>>
     ELSE sample' = sample

InterruptAbsorbed ==
  /\ pc \in Running
  /\ intAt' = pc
  /\ InterruptedFiles
  /\ IF pc \in {"query", "write"}
     THEN failed' = failed \cup {batch_num} /\ AfterError
     ELSE pc' = "interrupted" /\ UNCHANGED <<failed, batch_num>>
  /\ UNCHANGED <<total_rows, num_batches, df_batch, all_data, success,
                 sampleVars, inputVars, queried, written, zeroAt, errAt,
                 wroteCombined, wroteSample>>

\* KeyboardInterrupt is no Exception: line 103 does not catch it, line 209
\* does, and the process ends.
Interrupt ==
  /\ pc \in Running
  /\ intAt' = pc
  /\ InterruptedFiles
  /\ pc' = "interrupted"
  /\ UNCHANGED <<runVars, success, sampleVars, inputVars, queried, written,
                 failed, zeroAt, errAt, wroteCombined, wroteSample>>

Next ==
  \/ CountAndPlan
  \/ CountFails
  \/ BatchQuery
  \/ BatchQueryFails
  \/ BatchWrite
  \/ BatchWriteFails
  \/ Combine
  \/ CombineFails
  \/ SampleStart
  \/ SampleRead
  \/ SampleWrite
  \/ Interrupt

Spec == Init /\ [][Next]_vars

\* ------------------------------------------------------------ claims
Range(s) == {s[i] : i \in 1 .. Len(s)}

RECURSIVE JoinRows(_)
JoinRows(ss) == IF ss = <<>> THEN <<>> ELSE Head(ss) \o JoinRows(Tail(ss))

RECURSIVE ByIndex(_)
\* the names of S in ascending order of their batch index
ByIndex(S) ==
  IF S = {} THEN <<>>
  ELSE LET m == CHOOSE n \in S : \A o \in S : n[1] <= o[1]
       IN <<m>> \o ByIndex(S \ {m})

RECURSIVE SumRows(_)
SumRows(S) ==
  IF S = {} THEN 0
  ELSE LET n == CHOOSE x \in S : TRUE IN n[2] + SumRows(S \ {n})

\* rows of the batch files this run wrote, in ascending batch-index order
WrittenRows == LET names == ByIndex(written)
               IN JoinRows([i \in 1 .. Len(names) |-> dir[names[i]]])

CeilDiv(r, b) == CHOOSE k \in 0 .. r : k * b >= r /\ (k = 0 \/ (k - 1) * b < r)

IsPrefix(s, t) == Len(s) <= Len(t) /\ s = SubSeq(t, 1, Len(s))

\* C1: when batch_import_bigquery_data has returned, the count equalled the
\* table's size R and no batch failed, the batch queries were issued at exactly
\* the offsets 0, B, ..., (ceil(R/B)-1)*B, the written batch files taken in
\* index order are the table in (cep, latitude, longitude) order, every row is
\* in exactly one of them, and their row counts sum to R (no file when R = 0).
C1_BatchesPartitionSource ==
  (success = "True" /\ failed = {} /\ total_rows = Cardinality(table)) =>
    LET R == Cardinality(table)
        nb == CeilDiv(R, batch_size)
    IN /\ Len(queried) = nb
       /\ \A j \in 1 .. nb : queried[j].offset = (j - 1) * batch_size
       /\ Cardinality(written) = nb
       /\ WrittenRows = OrderBy(table)
       /\ \A r \in table : Cardinality({n \in written : r \in Range(dir[n])}) = 1
       /\ SumRows(written) = R

C1_Witness ==
  /\ success = "True" /\ failed = {} /\ total_rows = Cardinality(table)
  /\ Cardinality(table) = 3 /\ batch_size = 2 /\ Cardinality(written) = 2

\* C2: once a batch query has returned zero rows at some index, that query is
\* the last one issued, no file is written for that index, the empty batch is
\* not counted as a failure and the function is not left by an error of the
\* loop (only the combined write can still raise); it returns True, and when
\* no batch failed the written files are the zeroAt batches before it and hold
\* every row of the table (count 3, table of 2 rows, B = 1: two files, 2 rows).
C2_ZeroRowsStopTheLoop ==
  zeroAt # -1 =>
    /\ queried[Len(queried)].batch_num = zeroAt
    /\ pc \notin {"count", "query", "write"}
    /\ zeroAt \notin failed
    /\ \A n \in DOMAIN dir : n[1] = zeroAt + 1 => (n \in DOMAIN dir0 /\ dir[n] = dir0[n])
    /\ errAt \in {"none", "combine"}
    /\ (pc \in {"returned", "sample_read", "sample_write", "done"} => success = "True")
    /\ (success = "True" /\ failed = {}) =>
         (Cardinality(written) = zeroAt /\ SumRows(written) = Cardinality(table))

C2_Witness ==
  /\ zeroAt = 2 /\ total_rows = 3 /\ Cardinality(table) = 2 /\ batch_size = 1
  /\ success = "True" /\ Cardinality(written) = 2 /\ SumRows(written) = 2

\* the rows batch index i holds in the table
RowsOf(i) == BatchQueryRows(table, batch_size, i * batch_size)

\* the last index the loop reaches
LastIndex == IF zeroAt # -1 THEN zeroAt ELSE num_batches - 1

Succeeded == {i \in 0 .. LastIndex : i \notin failed /\ i # zeroAt}

RECURSIVE RowsOfAll(_)
\* the rows of the batches of I, in ascending index order
RowsOfAll(I) ==
  IF I = {} THEN <<>>
  ELSE LET m == CHOOSE i \in I : \A j \in I : i <= j
       IN RowsOf(m) \o RowsOfAll(I \ {m})

\* C3: when a batch's query or write has raised, the function is not left by
\* that error, and when it has returned every index up to the last one (the
\* zero-row index, or batchCount-1) was queried, every batch that did not fail
\* has its file, and the combined file holds the rows of exactly the batches
\* that did not fail, so none of a failed batch.
C3_FailedBatchIsSkipped ==
  failed # {} =>
    /\ errAt \in {"none", "combine"}
    /\ success = "True" =>
         /\ {queried[j].batch_num : j \in 1 .. Len(queried)} = 0 .. LastIndex
         /\ \A i \in Succeeded :
              /\ <<i + 1, Len(RowsOf(i))>> \in written
              /\ dir[<<i + 1, Len(RowsOf(i))>>] = RowsOf(i)
         /\ wroteCombined = (Succeeded # {})
         /\ wroteCombined => combined = <<RowsOfAll(Succeeded)>>
         /\ \A k \in failed : \A r \in Range(RowsOf(k)) :
              ~(wroteCombined /\ r \in Range(combined[1]))

C3_Witness ==
  /\ success = "True" /\ failed = {1} /\ Succeeded = {0, 2} /\ wroteCombined
  /\ Len(combined[1]) = 2

\* C4: when the function has returned, the combined file was written if and
\* only if at least one batch was written, and it then holds the rows of the
\* batch files of this run concatenated in ascending batch-index order.
C4_CombinedIsConcatenation ==
  success = "True" =>
    /\ wroteCombined = (written # {})
    /\ wroteCombined => combined = <<WrittenRows>>
    /\ ~wroteCombined => combined = <<>>

C4_Witness ==
  /\ success = "True" /\ wroteCombined /\ Cardinality(written) = 2
  /\ \E n \in written : Len(dir[n]) = 2

\* the batch files create_sample_from_batches has read, and their rows
FilesRead == SubSeq(batch_files, 1, Len(sample_data))
RowsRead == JoinRows([i \in 1 .. Len(FilesRead) |-> dir[FilesRead[i]]])

\* C5: create_sample_from_batches(sampleSize) reads the batch files in
\* filename-sorted order, stops at the first file where the accumulated row
\* count reaches sampleSize, reads at most five files, and the sample file
\* equals the first min(sampleSize, rows read) rows of the concatenation of
\* the files read.
C5_SampleIsPrefixOfFilesRead ==
  pc = "done" =>
    /\ batch_files = SortedNames(DOMAIN dir)
    /\ Len(FilesRead) <= 5
    /\ \A k \in 1 .. (Len(FilesRead) - 1) :
         Len(JoinRows([i \in 1 .. k |-> dir[FilesRead[i]]])) < sample_size
    /\ (Len(RowsRead) < sample_size) =>
         Len(FilesRead) = Min(5, Len(batch_files))
    /\ FilesRead # <<>> =>
         /\ sample = <<SubSeq(RowsRead, 1, Min(sample_size, Len(RowsRead)))>>
         /\ Len(sample[1]) = Min(sample_size, Len(RowsRead))

\* C6: when the count query has failed, the process has ended with the error
\* at the top level: no batch query was issued, OUTPUT_DIR is as the run found
\* it, neither the combined nor the sample file was written, and no success
\* value was returned.
C6_CountFailureIsFatal ==
  errAt = "count" =>
    /\ pc = "fatal"
    /\ queried = <<>>
    /\ dir = dir0
    /\ ~wroteCombined /\ combined = <<>>
    /\ ~wroteSample /\ sample = <<>>
    /\ success # "True"

C6_Witness == errAt = "count" /\ pc = "fatal" /\ dir0 # EmptyDir

\* C7: from the step in which an interrupt is delivered during the count
\* query, a batch query or a batch write on, the process is stopped: the
\* per-batch handler has not absorbed it, no further batch is queried, the
\* batch files already written by the run are unchanged and none is added,
\* and neither the combined nor the sample file is written.
C7_InterruptStopsTheRun ==
  [][intAt' \in {"count", "query", "write"} =>
       /\ pc' = "interrupted"
       /\ intAt \in {"none", intAt'}
       /\ queried' = queried
       /\ written' = written
       /\ \A n \in written : n \in DOMAIN dir' /\ dir'[n] = dir[n]
       /\ failed' = failed
       /\ combined' = combined /\ ~wroteCombined'
       /\ sample' = sample /\ ~wroteSample'
       /\ success' # "True"]_vars

C7_Witness ==
  /\ pc = "interrupted" /\ intAt = "write" /\ written # {}
  /\ \E n \in DOMAIN dir \ written : n \notin DOMAIN dir0

\* C8 as stated: the batch file named with the 1-based index I holds the rows
\* of a query with offset I * batch_size and limit batch_size, and at most
\* batch_size rows.
C8_OffsetIsIndexTimesSize ==
  \A n \in written :
    /\ \E j \in 1 .. Len(queried) :
         /\ queried[j].rows = dir[n]
         /\ queried[j].offset = n[1] * batch_size
         /\ queried[j].limit = batch_size
    /\ n[2] = Len(dir[n]) /\ n[2] <= batch_size

\* C8 (amended): the batch file named with the 1-based index I holds the rows
\* of a query with offset (I - 1) * batch_size and limit batch_size, and at
\* most batch_size rows.
C8_OffsetIsIndexMinusOneTimesSize ==
  \A n \in written :
    /\ \E j \in 1 .. Len(queried) :
         /\ queried[j].rows = dir[n]
         /\ queried[j].offset = (n[1] - 1) * batch_size
         /\ queried[j].limit = batch_size
    /\ n[2] = Len(dir[n]) /\ n[2] <= batch_size

C8_Witness ==
  /\ batch_size = 2
  /\ \E n \in written : n[1] = 2 /\ n[2] = 1
  /\ \E n \in written : n[1] = 1 /\ n[2] = 2

Done(i) == i \in failed \/ \E n \in written : n[1] = i + 1

\* C9: the batch queries issued so far are those of the indices 0, 1, 2, ...
\* in this order, each once, never more than batchCount of them; and whenever
\* the query of batch_num is about to be issued or its rows are about to be
\* written, every earlier batch has been written or has failed.
C9_SequentialIncreasingOnce ==
  /\ \A j \in 1 .. Len(queried) : queried[j].batch_num = j - 1
  /\ Len(queried) <= num_batches
  /\ pc = "query" => (Len(queried) = batch_num /\ \A i \in 0 .. (batch_num - 1) : Done(i))
  /\ pc = "write" =>
       (Len(queried) = batch_num + 1 /\ \A i \in 0 .. (batch_num - 1) : Done(i))
  /\ \A i \in failed : ~\E n \in written : n[1] = i + 1

C9_Witness ==
  /\ pc = "query" /\ batch_num = 2 /\ 0 \in failed /\ \E n \in written : n[1] = 2

\* C10: after batch_import_bigquery_data and create_sample_from_batches, every
\* row of the sample file was fetched by this run and the sample file is a
\* prefix of this run's combined file, whatever OUTPUT_DIR held before.  It is
\* stated here for the runs in which every file of OUTPUT_DIR reads back as it
\* was written, so that it does not rest on C5.
C10_SampleIsFromThisRun ==
  (pc = "done" /\ wroteSample /\ \A n \in DOMAIN dir : ReadCsv(dir[n]) = dir[n]) =>
    /\ \A r \in Range(sample[1]) :
         \E j \in 1 .. Len(queried) : r \in Range(queried[j].rows)
    /\ IsPrefix(sample[1], IF wroteCombined THEN combined[1] ELSE <<>>)
====
